---------------------------- MODULE Spec2Model ----------------------------
(***************************************************************************)
(* Model of line-col (src/src/lib.rs): LineColLookup, a lazily built table *)
(* of line-start byte offsets over a borrowed &str, and the two queries    *)
(* get / get_by_cluster that map a byte index to a 1-based (line, column). *)
(*                                                                         *)
(* A &str is modelled as the sequence of its chars; every char has the     *)
(* width of its UTF-8 encoding, so byte offsets, char boundaries and       *)
(* char_indices are computed exactly as on the encoded text.               *)
(***************************************************************************)
EXTENDS Integers, Sequences, FiniteSets

\* ------------------------------------------------------------------ bounds
\* Longest source text, in chars.
MaxLen == 3
\* Longest source text of letters and newlines only, in chars.
MaxPlain == 5
\* How far past the end of the text a queried index may lie.
MaxOver == 1

\* ------------------------------------------------------------------- text
\* The chars a text is drawn from:
\*   "a"     U+0061  letter                         1 byte
\*   "LF"    U+000A  '\n'                           1 byte
\*   "CR"    U+000D  '\r'                           1 byte
\*   "ACUTE" U+0301  combining acute accent         2 bytes
\*   "ZWJ"   U+200D  zero width joiner              3 bytes
\*   "MAN"   U+1F468 the emoji of the crate's tests 4 bytes
Chars == {"a", "LF", "CR", "ACUTE", "ZWJ", "MAN"}

\* char::len_utf8
Width(c) ==
    CASE c = "a" -> 1
      [] c = "LF" -> 1
      [] c = "CR" -> 1
      [] c = "ACUTE" -> 2
      [] c = "ZWJ" -> 3
      [] c = "MAN" -> 4

\* Grapheme_Cluster_Break property (Extended_Pictographic for the emoji).
Class(c) ==
    CASE c = "a" -> "Other"
      [] c = "LF" -> "LF"
      [] c = "CR" -> "CR"
      [] c = "ACUTE" -> "Extend"
      [] c = "ZWJ" -> "ZWJ"
      [] c = "MAN" -> "ExtPict"

RECURSIVE SeqsUpTo(_, _)
SeqsUpTo(cs, n) ==
    IF n = 0 THEN {<<>>}
    ELSE LET shorter == SeqsUpTo(cs, n - 1)
         IN  shorter \cup {Append(s, c) : s \in {t \in shorter : Len(t) = n - 1}, c \in cs}

\* Every &str of at most MaxLen chars, and every &str of letters and
\* newlines of at most MaxPlain chars.
Texts == SeqsUpTo(Chars, MaxLen) \cup SeqsUpTo({"a", "LF"}, MaxPlain)

\* str::len: the length in bytes.
RECURSIVE ByteLen(_)
ByteLen(s) == IF s = <<>> THEN 0 ELSE Width(Head(s)) + ByteLen(Tail(s))

\* Byte offset of the k-th char (k from 1).
Offset(s, k) == ByteLen(SubSeq(s, 1, k - 1))

\* str::char_indices: (byte offset, char) of every char, in order.
CharIndices(s) == [k \in 1..Len(s) |-> [i |-> Offset(s, k), c |-> s[k]]]

\* str::is_char_boundary
IsCharBoundary(s, i) == i = ByteLen(s) \/ \E k \in 1..Len(s) : Offset(s, k) = i

\* Whether &s[a..b] is a valid slice (otherwise the slice expression panics).
SliceOk(s, a, b) == a <= b /\ IsCharBoundary(s, a) /\ IsCharBoundary(s, b)

\* &s[a..b] for a valid slice: the chars starting in [a, b).
Slice(s, a, b) ==
    LET ks == {k \in 1..Len(s) : a <= Offset(s, k) /\ Offset(s, k) < b}
    IN  IF ks = {} THEN <<>>
        ELSE LET lo == CHOOSE k \in ks : \A m \in ks : k <= m
                 hi == CHOOSE k \in ks : \A m \in ks : m <= k
             IN  SubSeq(s, lo, hi)

\* ---------------------------------------------------- grapheme clusters
\* GB11's left context at position k: ExtPict Extend* ending at char k.
RECURSIVE PictThenExtends(_, _)
PictThenExtends(s, k) ==
    IF k < 1 THEN FALSE
    ELSE IF Class(s[k]) = "ExtPict" THEN TRUE
    ELSE IF Class(s[k]) = "Extend" THEN PictThenExtends(s, k - 1)
    ELSE FALSE

\* Whether an extended grapheme cluster boundary lies between chars k-1 and k
\* (UAX #29 rules, for the classes of Chars).
BreakBefore(s, k) ==
    LET l == Class(s[k - 1])
        r == Class(s[k])
    IN  IF l = "CR" /\ r = "LF" THEN FALSE                          \* GB3
        ELSE IF l \in {"CR", "LF"} THEN TRUE                       \* GB4
        ELSE IF r \in {"CR", "LF"} THEN TRUE                       \* GB5
        ELSE IF r \in {"Extend", "ZWJ"} THEN FALSE                 \* GB9
        ELSE IF l = "ZWJ" /\ r = "ExtPict" /\ PictThenExtends(s, k - 2)
             THEN FALSE                                            \* GB11
        ELSE TRUE                                                  \* GB999

\* Indices (from 1) of the chars that start a grapheme cluster of s.
ClusterHeads(s) == {k \in 1..Len(s) : k = 1 \/ BreakBefore(s, k)}

\* UnicodeSegmentation::graphemes(s, true).count()
GraphemeCount(s) == Cardinality(ClusterHeads(s))

\* ------------------------------------------------------------------ state
VARIABLES
    src,          \* the borrowed text
    line_heads,   \* RefCell<Option<Vec<usize>>>
    builds,       \* how many times heads() has collected the table
    pc,           \* "idle", or the loop of the running query
    index,        \* the running query's argument
    line_range,   \* the running query's line_range
    iters,        \* loop iterations of the running query so far
    result,       \* outcome of the last completed query
    earlier_get   \* what get last returned before that query

vars == <<src, line_heads, builds, pc, index, line_range, iters, result, earlier_get>>

None == [is_some |-> FALSE, v |-> <<>>]
Some(t) == [is_some |-> TRUE, v |-> t]

NoResult == [status |-> "none", op |-> "none", index |-> 0, line |-> 0, col |-> 0, why |-> "none"]
Returned(o, i, l, c) == [status |-> "ok", op |-> o, index |-> i, line |-> l, col |-> c, why |-> "none"]
Panicked(o, i, w) == [status |-> "panic", op |-> o, index |-> i, line |-> 0, col |-> 0, why |-> w]

NoRange == [start |-> 0, end |-> 0]

\* What get last returned, once query r has completed after g was remembered.
Remember(r, g) == IF r.status = "ok" /\ r.op = "get" THEN r ELSE g

\* Indices a caller may pass for text s.
Indices(s) == 0..(ByteLen(s) + MaxOver)

\* LineColLookup::new
Init ==
    /\ src \in Texts
    /\ line_heads = None
    /\ builds = 0
    /\ pc = "idle"
    /\ index = 0
    /\ line_range = NoRange
    /\ iters = 0
    /\ result = NoResult
    /\ earlier_get = NoResult


\* ------------------------------------------------------------- heads()
IsNewline(e) == e.c = "LF"

\* Mutant: the position of the '\n' counted in chars, as chars().enumerate() would.
CollectHeadsByCharCount(s) ==
    LET ks == SelectSeq([k \in 1..Len(s) |-> [i |-> k - 1, c |-> s[k]]], IsNewline)
    IN  <<0>> \o [k \in 1..Len(ks) |-> ks[k].i + 1]

\* The table heads() collects: 0, then i + 1 for every '\n' at byte offset i.
CollectHeads(s) ==
    LET nl == SelectSeq(CharIndices(s), IsNewline)
    IN  <<0>> \o [k \in 1..Len(nl) |-> nl[k].i + 1]

\* Mutant: the table collected again on every call.
HeadsAlwaysCollect(cell, s, b) == [cell |-> Some(CollectHeads(s)), builds |-> b + 1]

\* heads(): fills the cell when it is None; gives the cell and the number of
\* times the table has been collected.
Heads(cell, s, b) ==
    IF ~cell.is_some
        THEN [cell |-> Some(CollectHeads(s)), builds |-> b + 1]
        ELSE [cell |-> cell, builds |-> b]

\* ---------------------------------------------------------------- get
\* Mutant: the guard off by one.
GetIndexTooLargeOffByOne(s, i) == i > ByteLen(s) + 1

\* The guard of get: index > self.src.len()
GetIndexTooLarge(s, i) == i > ByteLen(s)

\* while line_range.end - line_range.start > 1
GetLoopCond(r) == r.end - r.start > 1

GetMiddle(r) == r.start + (r.end - r.start) \div 2

\* heads[k] of the Vec (k from 0) is defined for k < heads.len().
InBounds(heads, k) == 0 <= k /\ k < Len(heads)

\* Mutant: the left window closed at its end, heads[start] ..= heads[middle].
GetNarrowInclusive(heads, i, r) ==
    LET range_middle == GetMiddle(r)
        left == [start |-> r.start, end |-> range_middle]
        right == [start |-> range_middle, end |-> r.end]
    IN  IF heads[left.start + 1] <= i /\ i <= heads[left.end + 1]
            THEN left
            ELSE right

\* Mutant: the two windows taken the wrong way round.
GetNarrowSwapped(heads, i, r) ==
    LET range_middle == GetMiddle(r)
        left == [start |-> r.start, end |-> range_middle]
        right == [start |-> range_middle, end |-> r.end]
    IN  IF heads[left.start + 1] <= i /\ i < heads[left.end + 1]
            THEN right
            ELSE left

\* Mutant: the right window started past the middle line.
GetNarrowSkipsMiddle(heads, i, r) ==
    LET range_middle == GetMiddle(r)
        left == [start |-> r.start, end |-> range_middle]
        right == [start |-> range_middle + 1, end |-> r.end]
    IN  IF heads[left.start + 1] <= i /\ i < heads[left.end + 1]
            THEN left
            ELSE right

\* One iteration of get's loop.
GetNarrow(heads, i, r) ==
    LET range_middle == GetMiddle(r)
        left == [start |-> r.start, end |-> range_middle]
        right == [start |-> range_middle, end |-> r.end]
    IN  IF heads[left.start + 1] <= i /\ i < heads[left.end + 1]
            THEN left
            ELSE right

\* let col = index - line_start_index + 1
GetCol(i, line_start_index) == i - line_start_index + 1

\* let line = line_range.start + 1
GetLine(r) == r.start + 1

Finish(r) ==
    /\ pc' = "idle"
    /\ index' = 0
    /\ line_range' = NoRange
    /\ iters' = 0
    /\ result' = r

GetCall ==
    /\ pc = "idle"
    /\ \E i \in Indices(src) :
        IF GetIndexTooLarge(src, i)
            THEN /\ result' = Panicked("get", i, "index")
                 /\ earlier_get' = Remember(result, earlier_get)
                 /\ UNCHANGED <<src, line_heads, builds, pc, index, line_range, iters>>
            ELSE LET h == Heads(line_heads, src, builds)
                 IN  /\ line_heads' = h.cell
                     /\ builds' = h.builds
                     /\ earlier_get' = Remember(result, earlier_get)
                     /\ UNCHANGED src
                     /\ IF h.cell.is_some
                            THEN /\ pc' = "get_loop"
                                 /\ index' = i
                                 /\ line_range' = [start |-> 0, end |-> Len(h.cell.v)]
                                 /\ iters' = 0
                                 /\ result' = NoResult
                            ELSE Finish(Panicked("get", i, "unreachable"))

GetLoop ==
    /\ pc = "get_loop"
    /\ GetLoopCond(line_range)
    /\ IF InBounds(line_heads.v, line_range.start) /\ InBounds(line_heads.v, GetMiddle(line_range))
           THEN /\ line_range' = GetNarrow(line_heads.v, index, line_range)
                /\ iters' = iters + 1
                /\ UNCHANGED <<pc, index, result>>
           ELSE Finish(Panicked("get", index, "bounds"))
    /\ UNCHANGED <<src, line_heads, builds, earlier_get>>

GetReturn ==
    /\ pc = "get_loop"
    /\ ~GetLoopCond(line_range)
    /\ IF InBounds(line_heads.v, line_range.start)
           THEN Finish(Returned("get", index, GetLine(line_range),
                                GetCol(index, line_heads.v[line_range.start + 1])))
           ELSE Finish(Panicked("get", index, "bounds"))
    /\ UNCHANGED <<src, line_heads, builds, earlier_get>>

\* ----------------------------------------------------- get_by_cluster
ClusterIndexTooLarge(s, i) == i > ByteLen(s)

ClusterLoopCond(r) == r.end - r.start > 1

ClusterMiddle(r) == r.start + (r.end - r.start) \div 2

\* Mutant: the left window closed at its end.
ClusterNarrowInclusive(heads, i, r) ==
    LET range_middle == ClusterMiddle(r)
        left == [start |-> r.start, end |-> range_middle]
        right == [start |-> range_middle, end |-> r.end]
    IN  IF heads[left.start + 1] <= i /\ i <= heads[left.end + 1]
            THEN left
            ELSE right

\* One iteration of get_by_cluster's loop.
ClusterNarrow(heads, i, r) ==
    LET range_middle == ClusterMiddle(r)
        left == [start |-> r.start, end |-> range_middle]
        right == [start |-> range_middle, end |-> r.end]
    IN  IF heads[left.start + 1] <= i /\ i < heads[left.end + 1]
            THEN left
            ELSE right

\* graphemes(&self.src[line_start_index..index], true).count() + 1
ClusterCol(s, line_start_index, i) == GraphemeCount(Slice(s, line_start_index, i)) + 1

ClusterLine(r) == r.start + 1

ClusterCall ==
    /\ pc = "idle"
    /\ \E i \in Indices(src) :
        IF ClusterIndexTooLarge(src, i)
            THEN /\ result' = Panicked("get_by_cluster", i, "index")
                 /\ earlier_get' = Remember(result, earlier_get)
                 /\ UNCHANGED <<src, line_heads, builds, pc, index, line_range, iters>>
            ELSE LET h == Heads(line_heads, src, builds)
                 IN  /\ line_heads' = h.cell
                     /\ builds' = h.builds
                     /\ earlier_get' = Remember(result, earlier_get)
                     /\ UNCHANGED src
                     /\ IF h.cell.is_some
                            THEN /\ pc' = "cluster_loop"
                                 /\ index' = i
                                 /\ line_range' = [start |-> 0, end |-> Len(h.cell.v)]
                                 /\ iters' = 0
                                 /\ result' = NoResult
                            ELSE Finish(Panicked("get_by_cluster", i, "unreachable"))

ClusterLoop ==
    /\ pc = "cluster_loop"
    /\ ClusterLoopCond(line_range)
    /\ IF InBounds(line_heads.v, line_range.start) /\ InBounds(line_heads.v, ClusterMiddle(line_range))
           THEN /\ line_range' = ClusterNarrow(line_heads.v, index, line_range)
                /\ iters' = iters + 1
                /\ UNCHANGED <<pc, index, result>>
           ELSE Finish(Panicked("get_by_cluster", index, "bounds"))
    /\ UNCHANGED <<src, line_heads, builds, earlier_get>>

ClusterReturn ==
    /\ pc = "cluster_loop"
    /\ ~ClusterLoopCond(line_range)
    /\ IF ~InBounds(line_heads.v, line_range.start)
           THEN Finish(Panicked("get_by_cluster", index, "bounds"))
           ELSE LET line_start_index == line_heads.v[line_range.start + 1]
                IN  IF SliceOk(src, line_start_index, index)
                        THEN Finish(Returned("get_by_cluster", index, ClusterLine(line_range),
                                             ClusterCol(src, line_start_index, index)))
                        ELSE Finish(Panicked("get_by_cluster", index, "slice"))
    /\ UNCHANGED <<src, line_heads, builds, earlier_get>>

Next ==
    \/ GetCall
    \/ GetLoop
    \/ GetReturn
    \/ ClusterCall
    \/ ClusterLoop
    \/ ClusterReturn

Spec == Init /\ [][Next]_vars


\* ------------------------------------------------- what the claims say
\* Byte offsets at which the text holds '\n'.
NewlineOffsets(s) == {Offset(s, k) : k \in {j \in 1..Len(s) : s[j] = "LF"}}

\* Offsets of the line starts: 0 and the offset after every '\n'.
LineStartSet(s) == {0} \cup {p + 1 : p \in NewlineOffsets(s)}

SetMax(S) == CHOOSE x \in S : \A y \in S : y <= x

\* 1 + the number of '\n' strictly below offset i.
LineOf(s, i) == 1 + Cardinality({p \in NewlineOffsets(s) : p < i})

\* Start of the line whose half-open range holds offset i.
LineStartOf(s, i) == SetMax({q \in LineStartSet(s) : q <= i})

\* Byte offsets at which a grapheme cluster of the text starts.
ClusterStartOffsets(s) == {Offset(s, k) : k \in ClusterHeads(s)}

RECURSIVE CeilLog2(_)
CeilLog2(n) == IF n <= 1 THEN 0 ELSE 1 + CeilLog2((n + 1) \div 2)

RangeWidth(r) == r.end - r.start

IsGet(r) == r.status = "ok" /\ r.op = "get"
IsCluster(r) == r.status = "ok" /\ r.op = "get_by_cluster"

\* C1: for every index i <= len(text), get(i) returns (L, C) with L = 1 + the
\* number of '\n' at offsets below i and C = i - (start of that line) + 1.
C1_GetLineAndColumn ==
    (result.op = "get" /\ result.index <= ByteLen(src)) =>
        /\ result.status = "ok"
        /\ result.line = LineOf(src, result.index)
        /\ result.col = result.index - LineStartOf(src, result.index) + 1

\* A get at a '\n' that ends a later line, past the line's first column.
C1_Witness ==
    /\ IsGet(result)
    /\ result.index \in NewlineOffsets(src)
    /\ result.line >= 2
    /\ result.col >= 2

\* C2: for every index > len(text), get and get_by_cluster panic on the index
\* check and never return a value; neither loop is entered with such an index.
C2_TooLargeIndexPanics ==
    /\ (result.status # "none" /\ result.index > ByteLen(src)) =>
            (result.status = "panic" /\ result.why = "index")
    /\ pc # "idle" => index <= ByteLen(src)

\* get_by_cluster has panicked on an index past the end of a non-empty text,
\* after get had returned.
C2_Witness ==
    /\ result.status = "panic"
    /\ result.op = "get_by_cluster"
    /\ result.index > ByteLen(src)
    /\ src # <<>>
    /\ IsGet(earlier_get)

\* C3: an index past the end is the only failure: no query with
\* index <= len(text) panics, also when index lies inside a multi-byte char.
C3_InRangeNeverPanics ==
    result.status = "panic" => result.index > ByteLen(src)

\* C4: get is monotone: i <= j gives line(get(i)) <= line(get(j)), and on the
\* same line column(get(i)) <= column(get(j)).
C4_GetMonotone ==
    (IsGet(earlier_get) /\ IsGet(result)) =>
        /\ earlier_get.index <= result.index =>
            /\ earlier_get.line <= result.line
            /\ earlier_get.line = result.line => earlier_get.col <= result.col
        /\ result.index <= earlier_get.index =>
            /\ result.line <= earlier_get.line
            /\ earlier_get.line = result.line => result.col <= earlier_get.col

\* Two gets on the same later line, the second at a greater index.
C4_Witness ==
    /\ IsGet(earlier_get)
    /\ IsGet(result)
    /\ earlier_get.index < result.index
    /\ earlier_get.line = result.line
    /\ result.line >= 2
    /\ earlier_get.col < result.col

\* C5: right after new returns, before any query, the cached line-start
\* table is already populated with every line start of the text.
C5_NewFillsTheTable ==
    (pc = "idle" /\ result = NoResult /\ earlier_get = NoResult) =>
        /\ line_heads.is_some
        /\ {line_heads.v[k] : k \in 1..Len(line_heads.v)} = LineStartSet(src)

\* C6: for an in-range index on a char boundary, the column of get_by_cluster
\* is the number of grapheme clusters of the line from the line start up to
\* and including the cluster at index (the end of the text counting as one
\* more position), also when index lies inside a cluster.
C6_ClusterColumnCountsClusterAtIndex ==
    IsCluster(result) =>
        result.col = Cardinality({p \in ClusterStartOffsets(src) \cup {ByteLen(src)} :
                                    LineStartOf(src, result.index) <= p /\ p <= result.index})

\* C7: when get and get_by_cluster both return for an index, the lines are
\* equal and the cluster column is at most the raw column.
C7_SameLineClusterColAtMostRawCol ==
    (IsGet(earlier_get) /\ IsCluster(result) /\ earlier_get.index = result.index) =>
        /\ result.line = earlier_get.line
        /\ result.col <= earlier_get.col

\* Both queries at one index of a later line, the cluster column the smaller.
C7_Witness ==
    /\ IsGet(earlier_get)
    /\ IsCluster(result)
    /\ earlier_get.index = result.index
    /\ result.line >= 2
    /\ result.col < earlier_get.col

\* C8: the table heads() builds starts with 0, is strictly increasing, holds
\* besides 0 exactly p + 1 for every offset p of a '\n' (nothing for '\r'),
\* so has (number of '\n') + 1 entries, each <= len(text).
C8_LineStartTable ==
    line_heads.is_some =>
        LET h == line_heads.v
        IN  /\ Len(h) >= 1
            /\ h[1] = 0
            /\ \A k \in 1..(Len(h) - 1) : h[k] < h[k + 1]
            /\ {h[k] : k \in 1..Len(h)} = LineStartSet(src)
            /\ Len(h) = Cardinality(NewlineOffsets(src)) + 1
            /\ \A k \in 1..Len(h) : h[k] <= ByteLen(src)

\* A built table for a text with a '\r' and a multi-byte char before a '\n'.
C8_Witness ==
    /\ line_heads.is_some
    /\ Len(line_heads.v) >= 2
    /\ \E k \in 1..Len(src) : src[k] = "CR"
    /\ line_heads.v[2] > 2

LoopInvariant ==
    pc # "idle" =>
        LET h == line_heads.v
            n == Len(h)
            r == line_range
        IN  /\ line_heads.is_some
            /\ 0 <= r.start /\ r.start < r.end /\ r.end <= n
            /\ h[r.start + 1] <= index
            /\ r.end = n \/ index < h[r.end + 1]
            /\ iters <= CeilLog2(n)
            /\ RangeWidth(r) > 1 => GetMiddle(r) < n
            /\ RangeWidth(r) <= 1 => RangeWidth(r) = 1

\* C10: the binary search terminates: every iteration strictly shrinks the
\* range [start, end) and keeps it non-empty, keeps heads[start] <= index and
\* (end = number of lines or index < heads[end]), reads the table only below
\* its length, and leaves a range of one line after at most
\* ceil(log2(number of lines)) iterations.
C10_BinarySearch ==
    [][/\ LoopInvariant'
       /\ result'.why # "bounds"
       /\ (pc # "idle" /\ pc' = pc) =>
            /\ RangeWidth(line_range') < RangeWidth(line_range)
            /\ RangeWidth(line_range') >= 1
            /\ iters' = iters + 1]_vars

\* The loop of get_by_cluster has ended after three iterations on five lines.
C10_Witness ==
    /\ pc = "cluster_loop"
    /\ Len(line_heads.v) = 5
    /\ iters = 3
    /\ RangeWidth(line_range) = 1

=============================================================================
